---------------------------- MODULE Spec2Model ----------------------------
(***************************************************************************)
(* A model of the bond dashboard (src/app.py) and of its smaller variant   *)
(* (src/notifier.py).                                                      *)
(*                                                                         *)
(* Dates are Python date ordinals (date.toordinal(): day 1 is Monday       *)
(* 0001-01-01), so `date + timedelta(days=n)` is `ordinal + n`.            *)
(* Prices, targets and tolerances are integers in hundredths (paise);      *)
(* binary floating-point rounding of the differences is not modelled.      *)
(*                                                                         *)
(* The module holds several state machines over disjoint groups of         *)
(* variables; each specification moves one group and leaves the others at  *)
(* their idle values.                                                      *)
(***************************************************************************)
EXTENDS Integers, Sequences, FiniteSets, TLC

VARIABLES
    \* ---- the clock and the settlement date (app.py 134-145, notifier.py 38-46)
    clock,          \* the wall clock: the ordinal of the current calendar day
    today,          \* `today` of the last app.py run (app.py:135)
    SETTLEMENT,     \* app.py:145, the module global of the last app.py run
    settle_d,       \* `d` of the last notifier.py run (notifier.py:39)
    SETTLE,         \* notifier.py:46, the module global of the last notifier.py run
    \* ---- one call of a pure function
    call,           \* the function called and its arguments
    ret,            \* what it returned ("pending" before it returns)
    \* ---- one browser session of app.py or of notifier.py
    script,             \* which script the session runs: "app" or "notifier"
    watchlist,          \* st.session_state.watchlist: a sequence of symbols
    quick_add,          \* the value of the "Add bond" selectbox ("" when nothing is selected)
    alerts,             \* st.session_state.alerts: symbol -> [side, target, tolerance]
    state_file,         \* user_state.json: whether it exists, and its document
    last_alert_state,   \* st.session_state.last_alert_state: symbol -> status
    ALERT,              \* wdf["ALERT"] of the last run: symbol -> status
    hit_sounds,         \* the symbols play_hit_sound() was called for in the last run
    shown_before,       \* history: symbol -> its ALERT at its last evaluation before the last run
    present_order,      \* history: the symbols now listed, in the order of the insertions that listed them
    ever_order,         \* history: every symbol ever inserted, in the order of first insertion
    \* ---- the yield history (app.py 36-44, 482-509)
    yield_history,      \* yield_history.json: date key -> symbol -> entry ({} when missing)
    hist_prev,          \* history: yield_history.json as the last call loaded it
    hist_today,         \* the calendar day of the last call (app.py:485)
    hist_df,            \* the rows of df the last call was given
    \* ---- one refresh cycle: the data part of a script run (app.py 340-606, notifier.py 88-110)
    prog,               \* the script that runs: "app" or "notifier"
    feed,               \* what the NSE request of this refresh does, and the rows it carries
    manual_prices,      \* st.session_state.manual_prices: its symbols, in insertion order
    pc,                 \* the stage the run is about to execute, "done" or "raised"
    live_df,            \* live_df (app.py:348) / live (notifier.py:89)
    combined_live,      \* combined_live (app.py 367-374)
    priced_df,          \* df of the refresh: its columns and its rows
    snapshot,           \* what update_yield_history wrote for today (app.py:509)
    opportunities,      \* generate_opportunities(...) (app.py:606): the signals returned
    \* ---- the cache of load_master across script runs (app.py 176-205, notifier.py 58-66)
    now,                \* the wall clock in hours since 00:00 of BaseDay
    master_cache,       \* app.py: the entry of st.cache_data(ttl=24h) for load_master, if any
    notifier_cache,     \* notifier.py: the entry of st.cache_data for load_master, if any
    run,                \* the last script run: its settlement date, and the one in its master
    \* ---- user_state.json between a writing and a reading process (app.py 20-34, notifier.py 13-24)
    disk_file,          \* the file: the document being stored and how much of it is written
    wpc,                \* the writer's position in save_persistent_state / save_state
    wdoc,               \* the document the writer dumps
    rpc,                \* the reader's position in load_persistent_state / load_state
    rgot                \* what the reader's last load gave

clockVars == <<clock, today, SETTLEMENT, settle_d, SETTLE>>
callVars == <<call, ret>>
sessionVars == <<script, watchlist, quick_add, alerts, state_file, last_alert_state,
                 ALERT, hit_sounds, shown_before, present_order, ever_order>>

historyVars == <<yield_history, hist_prev, hist_today, hist_df>>

pipelineVars == <<prog, feed, manual_prices, pc, live_df, combined_live,
                  priced_df, snapshot, opportunities>>

cacheVars == <<now, master_cache, notifier_cache, run>>
fileVars == <<disk_file, wpc, wdoc, rpc, rgot>>

vars == <<clockVars, callVars, sessionVars, historyVars, pipelineVars, cacheVars, fileVars>>

\* What each state machine leaves alone.
notClock == <<cacheVars, fileVars, callVars, sessionVars, historyVars, pipelineVars>>
notCall == <<cacheVars, fileVars, clockVars, sessionVars, historyVars, pipelineVars>>
notSession == <<cacheVars, fileVars, clockVars, callVars, historyVars, pipelineVars>>
notHistory == <<cacheVars, fileVars, clockVars, callVars, sessionVars, pipelineVars>>
notPipeline == <<clockVars, callVars, sessionVars, historyVars, cacheVars, fileVars>>
notCache == <<clockVars, callVars, sessionVars, historyVars, pipelineVars, fileVars>>
notFile == <<clockVars, callVars, sessionVars, historyVars, pipelineVars, cacheVars>>

-----------------------------------------------------------------------------
(* Idle values of each group, for the specifications that do not move it.  *)

\* The first day the clock can show: Friday 2024-12-27.
BaseDay == 739247

ClockIdle ==
    /\ clock = BaseDay /\ today = BaseDay /\ SETTLEMENT = BaseDay
    /\ settle_d = BaseDay /\ SETTLE = BaseDay

CallIdle == call = [fn |-> "idle"] /\ ret = "pending"

\* load_persistent_state() when user_state.json does not exist (app.py:24).
NoStateFile == [exists |-> FALSE, watchlist |-> <<>>, alerts |-> <<>>]

SessionIdle ==
    /\ script = "app" /\ watchlist = <<>> /\ quick_add = "" /\ alerts = <<>>
    /\ state_file = NoStateFile /\ last_alert_state = <<>>
    /\ ALERT = <<>> /\ hit_sounds = {} /\ shown_before = <<>>
    /\ present_order = <<>> /\ ever_order = <<>>

HistoryIdle ==
    /\ yield_history = <<>> /\ hist_prev = <<>>
    /\ hist_today = BaseDay /\ hist_df = <<>>

\* pd.DataFrame(): no columns, no rows (app.py:280, notifier.py:86 with rows = [])
NoFrame == [columns |-> {}, rows |-> <<>>]

PipelineIdle ==
    /\ prog = "app" /\ feed = [outcome |-> "ok", rows |-> <<>>] /\ manual_prices = <<>>
    /\ pc = "done" /\ live_df = NoFrame /\ combined_live = NoFrame /\ priced_df = NoFrame
    /\ snapshot = <<>> /\ opportunities = <<>>

\* No script has run yet, and no cache entry exists.
CacheIdle ==
    /\ now = 0 /\ master_cache = <<>> /\ notifier_cache = <<>>
    /\ run = [script |-> "none", SETTLEMENT |-> BaseDay, master |-> BaseDay]

\* No user_state.json, and nobody saving or loading.
FileIdle ==
    /\ disk_file = [exists |-> FALSE, doc |-> <<>>, written |-> "all"]
    /\ wpc = "idle" /\ wdoc = <<>> /\ rpc = "idle" /\ rgot = [status |-> "none", doc |-> <<>>]

ClockOnly == CallIdle /\ SessionIdle /\ HistoryIdle /\ PipelineIdle /\ CacheIdle /\ FileIdle
CallOnly == ClockIdle /\ SessionIdle /\ HistoryIdle /\ PipelineIdle /\ CacheIdle /\ FileIdle
SessionOnly == ClockIdle /\ CallIdle /\ HistoryIdle /\ PipelineIdle /\ CacheIdle /\ FileIdle
HistoryOnly == ClockIdle /\ CallIdle /\ SessionIdle /\ PipelineIdle /\ CacheIdle /\ FileIdle
PipelineOnly == ClockIdle /\ CallIdle /\ SessionIdle /\ HistoryIdle /\ CacheIdle /\ FileIdle
CacheOnly == ClockIdle /\ CallIdle /\ SessionIdle /\ HistoryIdle /\ PipelineIdle /\ FileIdle
FileOnly == ClockIdle /\ CallIdle /\ SessionIdle /\ HistoryIdle /\ PipelineIdle /\ CacheIdle

-----------------------------------------------------------------------------
(* Calendar                                                                *)

\* The clock runs over BaseDay .. BaseDay + MaxDay.
MaxDay == 27

\* datetime.date.weekday(): Monday is 0, Sunday is 6.
weekday(d) == (d + 6) % 7

-----------------------------------------------------------------------------
(* Settlement date                                                         *)

get_settlement_date_Fri2(t) ==
    LET wd == weekday(t) IN
    IF wd <= 3 THEN t + 1
    ELSE IF wd = 4 THEN t + 2
    ELSE t + 2

\* app.py 134-143
get_settlement_date(t) ==
    LET wd == weekday(t) IN
    IF wd <= 3 THEN t + 1
    ELSE IF wd = 4 THEN t + 3
    ELSE t + 2

\* notifier.py 38-44
settlement(d) ==
    IF weekday(d) <= 3 THEN d + 1
    ELSE IF weekday(d) = 4 THEN d + 3
    ELSE d + 2

\* Both scripts have run once on the first day.
ClockInit ==
    /\ clock = BaseDay
    /\ today = clock
    /\ SETTLEMENT = get_settlement_date(clock)
    /\ settle_d = clock
    /\ SETTLE = settlement(clock)
    /\ ClockOnly

\* Midnight passes.
Tick ==
    /\ clock < BaseDay + MaxDay
    /\ clock' = clock + 1
    /\ UNCHANGED <<today, SETTLEMENT, settle_d, SETTLE, notClock>>

\* A run of app.py reaches line 145.
RunSettlementApp ==
    /\ today' = clock
    /\ SETTLEMENT' = get_settlement_date(clock)
    /\ UNCHANGED <<clock, settle_d, SETTLE, notClock>>

\* A run of notifier.py reaches line 46.
RunSettlementNotifier ==
    /\ settle_d' = clock
    /\ SETTLE' = settlement(clock)
    /\ UNCHANGED <<clock, today, SETTLEMENT, notClock>>

ClockNext == Tick \/ RunSettlementApp \/ RunSettlementNotifier

SpecClock == ClockInit /\ [][ClockNext]_vars

\* C7: the settlement date is today + 1 day when today is Monday to Thursday,
\* today + 3 days on a Friday, today + 2 days on a Saturday, and on every day
\* of the week it is strictly after today; in app.py and in notifier.py.
C7_SettlementTPlusOne ==
    /\ weekday(today) \in 0..3 => SETTLEMENT = today + 1
    /\ weekday(today) = 4 => SETTLEMENT = today + 3
    /\ weekday(today) = 5 => SETTLEMENT = today + 2
    /\ SETTLEMENT > today
    /\ weekday(settle_d) \in 0..3 => SETTLE = settle_d + 1
    /\ weekday(settle_d) = 4 => SETTLE = settle_d + 3
    /\ weekday(settle_d) = 5 => SETTLE = settle_d + 2
    /\ SETTLE > settle_d

\* A run on a Friday, after the clock has moved on, settling on the Monday.
C7_Witness ==
    /\ today > BaseDay + 6
    /\ weekday(today) = 4
    /\ SETTLEMENT = today + 3
    /\ weekday(SETTLEMENT) = 0

\* C8: when today is a Sunday the settlement date is the next Monday,
\* today + 1 day; in app.py and in notifier.py.
C8_SundaySettlesMonday ==
    /\ weekday(today) = 6 => SETTLEMENT = today + 1
    /\ weekday(settle_d) = 6 => SETTLE = settle_d + 1

-----------------------------------------------------------------------------
(* Alert evaluation (app.py 632-661)                                       *)

\* The statuses of the ALERT column; NONE is rendered as the dash.
NONE == "-"
FAR == "FAR"
NEAR == "NEAR"
HIT == "HIT"

alert_status_StrictNear(al, r) ==
    IF r.Symbol \notin DOMAIN al THEN NONE
    ELSE LET a == al[r.Symbol] IN
    IF a.target = 0 THEN NONE
    ELSE IF a.side = "SELL" THEN
        IF r.Bid = 0 THEN NONE
        ELSE IF r.Bid >= a.target THEN HIT
        ELSE IF (a.target - r.Bid) < a.tolerance THEN NEAR
        ELSE FAR
    ELSE IF a.side = "BUY" THEN
        IF r.Ask = 0 THEN NONE
        ELSE IF r.Ask <= a.target THEN HIT
        ELSE IF (r.Ask - a.target) < a.tolerance THEN NEAR
        ELSE FAR
    ELSE NONE

\* app.py 632-661: `al` is st.session_state.alerts, a function from the
\* symbols that have an alert to [side, target, tolerance]; r is a row of df.
alert_status(al, r) ==
    IF r.Symbol \notin DOMAIN al THEN NONE
    ELSE LET a == al[r.Symbol] IN
    IF a.target = 0 THEN NONE
    ELSE IF a.side = "SELL" THEN
        IF r.Bid = 0 THEN NONE
        ELSE IF r.Bid >= a.target THEN HIT
        ELSE IF (a.target - r.Bid) <= a.tolerance THEN NEAR
        ELSE FAR
    ELSE IF a.side = "BUY" THEN
        IF r.Ask = 0 THEN NONE
        ELSE IF r.Ask <= a.target THEN HIT
        ELSE IF (r.Ask - a.target) <= a.tolerance THEN NEAR
        ELSE FAR
    ELSE NONE

\* What the widgets of the alert form can hold (app.py 719-723), in hundredths.
Sides == {"BUY", "SELL"}
Targets == {-500, 0, 9950, 10000}
Tolerances == {-1, 0, 2, 50}
\* Top-of-book quotes; 0 stands for "no live price" (app.py 265-266, 389-390).
Quotes == {0, 9948, 9950, 9998, 9999, 10000, 10002, 10003, 10050}

AlertConfigs == [side : Sides, target : Targets, tolerance : Tolerances]

\* The alerts mapping seen by one call: no alert for the row's symbol, or one.
AlertMaps == {<<>>} \cup {("A" :> a) : a \in AlertConfigs}

AlertCallInit ==
    /\ call \in [fn : {"alert_status"}, alerts : AlertMaps,
                 r : [Symbol : {"A"}, Bid : Quotes, Ask : Quotes]]
    /\ ret = "pending"
    /\ CallOnly

AlertCallReturn ==
    /\ ret = "pending"
    /\ ret' = alert_status(call.alerts, call.r)
    /\ UNCHANGED <<call, notCall>>

SpecAlertStatus == AlertCallInit /\ [][AlertCallReturn]_vars

\* C1: alert_status returns NONE when no alert is configured, when the
\* target is 0, or when the watched quote (bid for SELL, ask for BUY) is 0;
\* otherwise for SELL it returns HIT if bid >= target, else NEAR if
\* target - bid <= tolerance, else FAR, and for BUY HIT if ask <= target,
\* else NEAR if ask - target <= tolerance, else FAR.
C1_AlertStatus ==
    (call.fn = "alert_status" /\ ret # "pending") =>
        LET configured == "A" \in DOMAIN call.alerts
            a == call.alerts["A"]
            watched == IF a.side = "SELL" THEN call.r.Bid ELSE call.r.Ask
            \* how far the watched quote is on the wrong side of the target
            gap == IF a.side = "SELL" THEN a.target - watched
                   ELSE watched - a.target
        IN  IF ~configured THEN ret = NONE
            ELSE CASE a.target = 0 \/ watched = 0 -> ret = NONE
                   [] OTHER ->
                        /\ (gap <= 0) => ret = HIT
                        /\ (gap > 0 /\ gap <= a.tolerance) => ret = NEAR
                        /\ (gap > 0 /\ gap > a.tolerance) => ret = FAR

\* The example of the claim: SELL, target 100.00, tolerance 0.02, bid 99.99
\* has been evaluated as NEAR.
C1_Witness ==
    /\ call.fn = "alert_status"
    /\ "A" \in DOMAIN call.alerts
    /\ call.alerts["A"] = [side |-> "SELL", target |-> 10000, tolerance |-> 2]
    /\ call.r.Bid = 9999
    /\ ret = NEAR

-----------------------------------------------------------------------------
(* The watchlist, the alerts and the sound loop of one session             *)
(* (app.py 66-72, 685-782; notifier.py 31-35, 118-129)                     *)

\* x in list
InSeq(x, seq) == \E i \in DOMAIN seq : seq[i] = x

Elems(seq) == {seq[i] : i \in DOMAIN seq}

NoDuplicates(seq) == \A i, j \in DOMAIN seq : seq[i] = seq[j] => i = j

\* list(dict.fromkeys(seq)): the first occurrence of each element, in order.
RECURSIVE DictFromKeys(_)
DictFromKeys(seq) ==
    IF seq = <<>> THEN <<>>
    ELSE LET before == DictFromKeys(SubSeq(seq, 1, Len(seq) - 1))
             x == seq[Len(seq)]
         IN  IF InSeq(x, before) THEN before ELSE Append(before, x)

\* The lines a user can type into the text area (app.py:696).
PasteLines == {"A", " b ", ""}

\* The text area holds at most MaxPaste lines.
MaxPaste == 2

Pastes == UNION {[1..n -> PasteLines] : n \in 0..MaxPaste}

\* str.strip() and str.upper() on the strings the model uses.
strip(x) == IF x = " b " THEN "b" ELSE x
upper(x) == IF x = "b" THEN "B" ELSE x

NonEmptyStripped(x) == strip(x) # ""
StripUpper(x) == upper(strip(x))

\* app.py:699
PasteItems(paste) ==
    LET kept == SelectSeq(paste, NonEmptyStripped)
    IN  [i \in DOMAIN kept |-> StripUpper(kept[i])]

\* notifier.py 125-127: the lines as stripped, the empty ones left out.
NotifierPasteItems(paste) ==
    LET kept == SelectSeq(paste, NonEmptyStripped)
    IN  [i \in DOMAIN kept |-> strip(kept[i])]

\* app.py 692-693 and notifier.py 119-120
QuickAdd(w, q) == IF q # "" /\ ~InSeq(q, w) THEN Append(w, q) ELSE w

AddPasted_NoDedupe(w, paste) == w \o PasteItems(paste)

\* app.py 699-702
AddPasted(w, paste) == DictFromKeys(w \o PasteItems(paste))

\* notifier.py 125-128
RECURSIVE NotifierAddPasted(_, _)
NotifierAddPasted(w, paste) ==
    IF paste = <<>> THEN w
    ELSE LET x == strip(Head(paste))
             w1 == IF x # "" /\ ~InSeq(x, w) THEN Append(w, x) ELSE w
         IN  NotifierAddPasted(w1, Tail(paste))

\* app.py 779-781
Remove(w, remove) == SelectSeq(w, LAMBDA x : x \notin remove)

\* The symbols of the market view (all_symbols, app.py:685).
Symbols == {"A", "B"}

\* What a row of df can show as (Bid, Ask), in hundredths.
RowQuotes == { [Bid |-> 0, Ask |-> 0], [Bid |-> 9950, Ask |-> 10050],
               [Bid |-> 9999, Ask |-> 10002], [Bid |-> 10000, Ask |-> 10000] }

\* df of one run: the symbols that have a row, each with its quotes.
Frames == UNION {[D -> RowQuotes] : D \in SUBSET Symbols}

\* What the alert form can save in a session (app.py 719-730).
SessionConfigs == [side : Sides, target : {0, 10000}, tolerance : {2}]

\* f with f[k] = v, as a dict assignment.
DictSet(f, k, v) == [x \in DOMAIN f \cup {k} |-> IF x = k THEN v ELSE f[x]]

SoundLoop_Level(df, w, al, last) ==
    IF w = <<>> THEN [ALERT |-> <<>>, hit |-> {}, last |-> last]
    ELSE LET wdf == DOMAIN df \cap Elems(w)
             col == [s \in wdf |->
                        alert_status(al, [Symbol |-> s, Bid |-> df[s].Bid, Ask |-> df[s].Ask])]
         IN  [ALERT |-> col,
              hit |-> {s \in wdf : col[s] = HIT},
              last |-> [s \in DOMAIN last \cup wdf |->
                            IF s \in wdf THEN col[s] ELSE last[s]]]

\* app.py 736-751: the ALERT column of the watchlisted rows, the symbols
\* play_hit_sound() is called for, and last_alert_state after the loop.
SoundLoop(df, w, al, last) ==
    IF w = <<>> THEN [ALERT |-> <<>>, hit |-> {}, last |-> last]
    ELSE LET wdf == DOMAIN df \cap Elems(w)
             col == [s \in wdf |->
                        alert_status(al, [Symbol |-> s, Bid |-> df[s].Bid, Ask |-> df[s].Ask])]
             old(s) == IF s \in DOMAIN last THEN last[s] ELSE "None"
         IN  [ALERT |-> col,
              hit |-> {s \in wdf : col[s] # old(s) /\ col[s] = HIT},
              last |-> [s \in DOMAIN last \cup wdf |->
                            IF s \in wdf THEN col[s] ELSE last[s]]]

\* The history of the statuses shown: the ALERT column of the run before is
\* folded in when a new run starts.
FoldShown == [s \in DOMAIN shown_before \cup DOMAIN ALERT |->
                 IF s \in DOMAIN ALERT THEN ALERT[s] ELSE shown_before[s]]

\* The history of the insertions: a request for a symbol that is listed
\* changes nothing, any other request puts the symbol last.
RECURSIVE Inserted(_, _)
Inserted(order, requests) ==
    IF requests = <<>> THEN order
    ELSE Inserted(IF InSeq(Head(requests), order) THEN order
                  ELSE Append(order, Head(requests)),
                  Tail(requests))

Requests(q, items) == (IF q = "" THEN <<>> ELSE <<q>>) \o items

\* A session starts with no user_state.json (app.py 66-72, notifier.py 31-35);
\* its first run, with nothing selected and nothing clicked, has drawn the page.
SessionInit ==
    /\ script \in {"app", "notifier"}
    /\ state_file = NoStateFile
    /\ watchlist = state_file.watchlist
    /\ quick_add = ""
    /\ alerts = state_file.alerts
    /\ last_alert_state = <<>>
    /\ ALERT = <<>> /\ hit_sounds = {} /\ shown_before = <<>>
    /\ present_order = <<>> /\ ever_order = <<>>
    /\ SessionOnly

\* One run of app.py from line 685 on. df is the frame of this run, q the
\* value of the "Add bond" selectbox, button the button that was clicked:
\* [kind |-> "none"], [kind |-> "paste", paste |-> lines],
\* [kind |-> "save", sym, cfg] or [kind |-> "remove", remove |-> set].
AppRun(df, q, button) ==
    LET w1 == QuickAdd(watchlist, q)
        w2 == IF button.kind = "paste" THEN AddPasted(w1, button.paste) ELSE w1
        al == IF button.kind = "save" THEN DictSet(alerts, button.sym, button.cfg)
              ELSE alerts
        loop == SoundLoop(df, w2, al, last_alert_state)
        w3 == IF button.kind = "remove" THEN Remove(w2, button.remove) ELSE w2
        saved == w1 # watchlist \/ button.kind # "none"
        items == IF button.kind = "paste" THEN PasteItems(button.paste) ELSE <<>>
        removed == IF button.kind = "remove" THEN button.remove ELSE {}
    IN  \* the form and the multiselect were drawn by the run before, from
        \* the watchlist (app.py 710-713, 776)
        /\ button.kind = "save" => InSeq(button.sym, watchlist)
        /\ button.kind = "remove" =>
                watchlist # <<>> /\ button.remove \subseteq Elems(watchlist)
        /\ watchlist' = w3
        /\ quick_add' = q
        /\ alerts' = al
        /\ state_file' = IF saved
                         THEN [exists |-> TRUE, watchlist |-> w3, alerts |-> al]
                         ELSE state_file
        /\ last_alert_state' = loop.last
        /\ ALERT' = loop.ALERT
        /\ hit_sounds' = loop.hit
        /\ shown_before' = FoldShown
        /\ present_order' = Remove(Inserted(present_order, Requests(q, items)), removed)
        /\ ever_order' = Inserted(ever_order, Requests(q, items))
        /\ UNCHANGED <<script, notSession>>

\* The selectbox in a run started by a button: it keeps its value, or falls
\* back to "" (its first option) when the widget is rebuilt; its options are
\* the symbols of the frame (app.py 685-690).
Kept(options) == {""} \cup ({quick_add} \cap options)

\* A run with no button clicked: a refresh, or the user picking a symbol in
\* the selectbox. F is the set of frames the run can see.
RunRefresh(F) ==
    /\ script = "app"
    /\ \E df \in F : \E q \in {""} \cup DOMAIN df :
        AppRun(df, q, [kind |-> "none"])

\* app.py 698-703; P is the set of texts the text area can hold.
RunAddPasted(F, P) ==
    /\ script = "app"
    /\ \E df \in F : \E q \in Kept(DOMAIN df) : \E paste \in P :
        AppRun(df, q, [kind |-> "paste", paste |-> paste])

\* app.py 725-731
RunSaveAlert(F) ==
    /\ script = "app"
    /\ \E df \in F : \E q \in Kept(DOMAIN df) :
       \E sym \in Symbols : \E cfg \in SessionConfigs :
        AppRun(df, q, [kind |-> "save", sym |-> sym, cfg |-> cfg])

\* app.py 776-782
RunRemove(F) ==
    /\ script = "app"
    /\ \E df \in F : \E q \in Kept(DOMAIN df) : \E R \in SUBSET Symbols :
        AppRun(df, q, [kind |-> "remove", remove |-> R])

\* One run of notifier.py from line 118 on: it has no sound loop and no
\* Remove button.
NotifierRun(q, paste, clicked) ==
    LET w1 == QuickAdd(watchlist, q)
        w2 == IF clicked THEN NotifierAddPasted(w1, paste) ELSE w1
        items == IF clicked THEN NotifierPasteItems(paste) ELSE <<>>
    IN  /\ watchlist' = w2
        /\ quick_add' = q
        /\ state_file' = IF w1 # watchlist \/ clicked
                         THEN [exists |-> TRUE, watchlist |-> w2, alerts |-> alerts]
                         ELSE state_file
        /\ present_order' = Inserted(present_order, Requests(q, items))
        /\ ever_order' = Inserted(ever_order, Requests(q, items))
        /\ UNCHANGED <<script, alerts, last_alert_state, ALERT, hit_sounds,
                       shown_before, notSession>>

\* notifier.py 118-121
NotifierRunAdd ==
    /\ script = "notifier"
    /\ \E q \in {""} \cup Symbols : NotifierRun(q, <<>>, FALSE)

\* notifier.py 123-129
NotifierRunAddPasted ==
    /\ script = "notifier"
    /\ \E q \in Kept(Symbols) : \E paste \in Pastes : NotifierRun(q, paste, TRUE)

\* The watchlist machine: every paste, both scripts, the quotes held fixed
\* (no handler of the watchlist reads them).
FixedFrames == {[s \in Symbols |-> [Bid |-> 10000, Ask |-> 10000]]}

WatchlistInit == SessionInit

WatchlistNext ==
    \/ RunRefresh(FixedFrames)
    \/ RunAddPasted(FixedFrames, Pastes)
    \/ RunSaveAlert(FixedFrames)
    \/ RunRemove(FixedFrames)
    \/ NotifierRunAdd
    \/ NotifierRunAddPasted

SpecWatchlist == WatchlistInit /\ [][WatchlistNext]_vars

\* The alert machine: app.py with moving quotes. "A" shows any of the
\* quotes or has no row, "B" always shows the same quote; the text area
\* holds at most one line.
AlertFrames ==
    {df \in Frames : "B" \in DOMAIN df /\ df["B"] = [Bid |-> 10000, Ask |-> 10000]}

AlertPastes == {p \in Pastes : Len(p) <= 1}

Init == SessionInit /\ script = "app"

Next ==
    \/ RunRefresh(AlertFrames)
    \/ RunAddPasted(AlertFrames, AlertPastes)
    \/ RunSaveAlert(AlertFrames)
    \/ RunRemove(AlertFrames)

Spec == Init /\ [][Next]_vars

\* C2: the HIT notification of a symbol is edge-triggered: play_hit_sound is
\* called for a symbol in exactly the runs in which its alert status is HIT
\* and was not HIT when it was last evaluated (or had never been evaluated);
\* it is not called again while the status stays HIT, and is called again
\* once the status has left HIT and come back to it.
C2_HitEdgeTriggered ==
    \A s \in Symbols :
        s \in hit_sounds <=>
            /\ s \in DOMAIN ALERT
            /\ ALERT[s] = HIT
            /\ ~(s \in DOMAIN shown_before /\ shown_before[s] = HIT)

\* In one run "A" has come to HIT from NEAR and has sounded, while "B" has
\* stayed at HIT and has not.
C2_Witness ==
    /\ "A" \in hit_sounds
    /\ "A" \in DOMAIN shown_before /\ shown_before["A"] = NEAR
    /\ "B" \in DOMAIN ALERT /\ ALERT["B"] = HIT
    /\ "B" \in DOMAIN shown_before /\ shown_before["B"] = HIT
    /\ "B" \notin hit_sounds

\* C3: every symbol that has an alert, in the session and in
\* user_state.json, is a member of the watchlist (removing a symbol from
\* the watchlist deletes its alert).
C3_AlertsOnlyForWatchlisted ==
    /\ DOMAIN alerts \subseteq Elems(watchlist)
    /\ DOMAIN state_file.alerts \subseteq Elems(state_file.watchlist)

\* C4, as amended: the watchlist holds no symbol twice, and its symbols
\* stand in the order of the insertions that put them on the list: adding a
\* symbol that is on the list changes nothing, and a symbol that was removed
\* and is added again goes to the end.
C4_NoDuplicatesInsertionOrder ==
    /\ NoDuplicates(watchlist)
    /\ watchlist = present_order
    /\ state_file.exists => state_file.watchlist = watchlist

\* "A" was inserted first, removed, and inserted again after "B".
C4_Witness ==
    /\ watchlist = <<"B", "A">>
    /\ ever_order = <<"A", "B">>

\* C4, as stated: the watchlist holds no symbol twice, and its symbols stand
\* in the order of their first insertion.
C4_FirstInsertionOrder ==
    /\ NoDuplicates(watchlist)
    /\ watchlist = SelectSeq(ever_order, LAMBDA x : InSeq(x, watchlist))

-----------------------------------------------------------------------------
(* Yield history (app.py 36-44, 482-509)                                   *)

\* A float that may be missing: <<>> is None / NaN, <<v>> is the value v.
Null == <<>>
Some(v) == <<v>>

\* Year, month and day of a date ordinal (proleptic Gregorian calendar).
YearMonthDay(ordinal) ==
    LET z == ordinal + 305
        era == z \div 146097
        doe == z - era * 146097
        yoe == (doe - doe \div 1460 + doe \div 36524 - doe \div 146096) \div 365
        doy == doe - (365 * yoe + yoe \div 4 - yoe \div 100)
        mp == (5 * doy + 2) \div 153
        d == doy - (153 * mp + 2) \div 5 + 1
        m == IF mp < 10 THEN mp + 3 ELSE mp - 9
        y == yoe + era * 400 + (IF m <= 2 THEN 1 ELSE 0)
    IN  <<y, m, d>>

\* strftime("%Y-%m-%d"): a string, as the sequence of its character codes
\* ("0" is 48, "-" is 45).
strftime(ordinal) ==
    LET ymd == YearMonthDay(ordinal)
        y == ymd[1]
        m == ymd[2]
        d == ymd[3]
        digit(n) == 48 + (n % 10)
    IN  << digit(y \div 1000), digit(y \div 100), digit(y \div 10), digit(y), 45,
           digit(m \div 10), digit(m), 45,
           digit(d \div 10), digit(d) >>

\* a < b on Python strings
RECURSIVE StrLess(_, _)
StrLess(a, b) ==
    IF a = <<>> THEN b # <<>>
    ELSE IF b = <<>> THEN FALSE
    ELSE IF Head(a) < Head(b) THEN TRUE
    ELSE IF Head(a) > Head(b) THEN FALSE
    ELSE StrLess(Tail(a), Tail(b))

\* sorted(keys)
RECURSIVE Sorted(_)
Sorted(keys) ==
    IF keys = {} THEN <<>>
    ELSE LET least == CHOOSE x \in keys : \A y \in keys \ {x} : StrLess(x, y)
         IN  <<least>> \o Sorted(keys \ {least})

\* app.py 490-498: the rows of df in order; a symbol is written once a day.
RECURSIVE RecordRows_Overwrite(_, _)
RecordRows_Overwrite(day, rows) ==
    IF rows = <<>> THEN day
    ELSE LET row == Head(rows)
             entry == [bid_ytm |-> row.BidYTM[1], ask_ytm |-> row.AskYTM,
                       volume |-> row.Volume]
         IN  RecordRows_Overwrite(
                IF row.BidYTM # Null
                THEN DictSet(day, row.Symbol, entry) ELSE day,
                Tail(rows))

RECURSIVE RecordRows(_, _)
RecordRows(day, rows) ==
    IF rows = <<>> THEN day
    ELSE LET row == Head(rows)
             entry == [bid_ytm |-> row.BidYTM[1], ask_ytm |-> row.AskYTM,
                       volume |-> row.Volume]
         IN  RecordRows(
                IF row.BidYTM # Null /\ row.Symbol \notin DOMAIN day
                THEN DictSet(day, row.Symbol, entry) ELSE day,
                Tail(rows))

\* "Keep only last 7 days" (app.py 500-504)
KeepDays == 7

Prune_Newest(h) ==
    LET all_dates == Sorted(DOMAIN h)
        n == Len(all_dates)
    IN  IF n > KeepDays
        THEN [k \in DOMAIN h \ {all_dates[i] : i \in KeepDays + 1 .. n} |-> h[k]]
        ELSE h

\* app.py 500-504: del history[old_date] for old_date in all_dates[:-7]
Prune(h) ==
    LET all_dates == Sorted(DOMAIN h)
        n == Len(all_dates)
    IN  IF n > KeepDays
        THEN [k \in DOMAIN h \ {all_dates[i] : i \in 1 .. n - KeepDays} |-> h[k]]
        ELSE h

\* app.py 482-507: the document the call saves and returns; h is what
\* load_yield_history() returned, t the calendar day, rows the rows of df.
update_yield_history(h, t, rows) ==
    LET key == strftime(t)
        h1 == IF key \notin DOMAIN h THEN DictSet(h, key, <<>>) ELSE h
        h2 == DictSet(h1, key, RecordRows(h1[key], rows))
    IN  Prune(h2)

\* The call of app.py:509 on day t with the rows `rows`.
UpdateYieldHistory(t, rows) ==
    /\ hist_today' = t
    /\ hist_df' = rows
    /\ hist_prev' = yield_history
    /\ yield_history' = update_yield_history(yield_history, t, rows)
    /\ UNCHANGED notHistory

\* Rows of df as the history sees them: Bid YTM and Ask YTM in hundredths
\* of a percent.
RowA1 == [Symbol |-> "A", BidYTM |-> Some(712), AskYTM |-> Null, Volume |-> 0]
RowA2 == [Symbol |-> "A", BidYTM |-> Some(725), AskYTM |-> Some(718), Volume |-> 50]
RowA0 == [Symbol |-> "A", BidYTM |-> Null, AskYTM |-> Some(718), Volume |-> 50]
RowB1 == [Symbol |-> "B", BidYTM |-> Some(690), AskYTM |-> Some(688), Volume |-> 20]

\* ---- the pruning machine: the clock shows any day of a window of
\* PruneDays + 1 days, in any order; df holds one priced row.
PruneDays == 8

PruneWindow == BaseDay .. BaseDay + PruneDays

PruneInit ==
    /\ \E t \in PruneWindow :
        /\ hist_today = t
        /\ hist_df = <<RowA1>>
        /\ hist_prev = <<>>
        /\ yield_history = update_yield_history(<<>>, t, <<RowA1>>)
    /\ HistoryOnly

PruneNext == \E t \in PruneWindow : UpdateYieldHistory(t, <<RowA1>>)

SpecPrune == PruneInit /\ [][PruneNext]_vars

\* The calendar day a date key stands for: the ordinal of the date it reads as.
DayOfKey(k) ==
    LET y == (k[1] - 48) * 1000 + (k[2] - 48) * 100 + (k[3] - 48) * 10 + (k[4] - 48)
        m == (k[6] - 48) * 10 + (k[7] - 48)
        d == (k[9] - 48) * 10 + (k[10] - 48)
        yy == IF m <= 2 THEN y - 1 ELSE y
        era == yy \div 400
        yoe == yy - era * 400
        doy == (153 * (IF m > 2 THEN m - 3 ELSE m + 9) + 2) \div 5 + d - 1
        doe == yoe * 365 + yoe \div 4 - yoe \div 100 + doy
    IN  era * 146097 + doe - 305

\* The n most recent dates among the keys: those with fewer than n later ones.
MostRecent(keys, n) ==
    {k \in keys : Cardinality({j \in keys : DayOfKey(j) > DayOfKey(k)}) < n}

\* C5: after every call of update_yield_history the history holds at most 7
\* date keys, and they are the 7 most recent calendar dates among the keys
\* present before pruning (the keys loaded, and today's).
C5_SevenMostRecentDates ==
    /\ Cardinality(DOMAIN yield_history) <= 7
    /\ DOMAIN yield_history =
          MostRecent(DOMAIN hist_prev \cup {strftime(hist_today)}, 7)

\* A call on a new day found seven dates, two of them in the next year, and
\* dropped the oldest.
C5_Witness ==
    /\ Cardinality(DOMAIN hist_prev) = 7
    /\ strftime(hist_today) \notin DOMAIN hist_prev
    /\ strftime(BaseDay + 5) \in DOMAIN hist_prev
    /\ strftime(hist_today) \in DOMAIN yield_history
    /\ DOMAIN hist_prev \ DOMAIN yield_history # {}

\* ---- the snapshot machine: the file holds the six days before BaseDay,
\* written by the runs of those days; the clock shows BaseDay or one of the
\* SnapshotDays days after it, or has been set back to before the six days;
\* df changes from call to call.
SnapshotDays == 1

SnapshotWindow == {BaseDay - 7} \cup (BaseDay .. BaseDay + SnapshotDays)

SnapshotFrames == { <<>>, <<RowA1>>, <<RowA2>>, <<RowA0>>, <<RowA1, RowB1>>,
                    <<RowB1, RowA2>>, <<RowA0, RowB1>>, <<RowA1, RowA2>> }

RECURSIVE SixDays(_)
SixDays(n) ==
    IF n = 0 THEN <<>>
    ELSE update_yield_history(SixDays(n - 1), BaseDay - 7 + n, <<RowA1>>)

SnapshotInit ==
    /\ \E t \in SnapshotWindow : \E rows \in SnapshotFrames :
        /\ hist_today = t
        /\ hist_df = rows
        /\ hist_prev = SixDays(6)
        /\ yield_history = update_yield_history(SixDays(6), t, rows)
    /\ HistoryOnly

SnapshotNext ==
    \E t \in SnapshotWindow : \E rows \in SnapshotFrames : UpdateYieldHistory(t, rows)

SpecSnapshot == SnapshotInit /\ [][SnapshotNext]_vars

HasEntry(h, k, sym) == k \in DOMAIN h /\ sym \in DOMAIN h[k]

\* C6: an entry that exists for (today, symbol) when update_yield_history is
\* called is still there afterwards with the same bid yield, ask yield and
\* volume, whatever df holds; and an entry that the call has added is
\* today's, for a symbol of which a row of df has a non-null Bid YTM.
C6_FirstWriteWins ==
    LET key == strftime(hist_today) IN
    /\ \A sym \in Symbols :
          HasEntry(hist_prev, key, sym) =>
              /\ HasEntry(yield_history, key, sym)
              /\ yield_history[key][sym] = hist_prev[key][sym]
    /\ \A k \in DOMAIN yield_history : \A sym \in DOMAIN yield_history[k] :
          ~HasEntry(hist_prev, k, sym) =>
              /\ k = key
              /\ \E i \in DOMAIN hist_df :
                    /\ hist_df[i].Symbol = sym
                    /\ hist_df[i].BidYTM # Null

\* The second call of a day brought other values for "A" and a first row
\* for "B": the entry of "A" is the morning's, "B" is recorded; the oldest
\* of the six earlier days has been pruned.
C6_Witness ==
    LET key == strftime(hist_today) IN
    /\ HasEntry(hist_prev, key, "A")
    /\ ~HasEntry(hist_prev, key, "B")
    /\ hist_df = <<RowB1, RowA2>>
    /\ yield_history[key]["A"] = [bid_ytm |-> 712, ask_ytm |-> Null, volume |-> 0]
    /\ HasEntry(yield_history, key, "B")
    /\ strftime(BaseDay - 6) \notin DOMAIN yield_history

-----------------------------------------------------------------------------
(* Yield to maturity (app.py 421-472)                                      *)
(* Prices and accrued interest in hundredths, coupons and yields in        *)
(* hundredths of a percent, years in hundredths of a year. A float that    *)
(* can be NaN is Null or Some(v).                                          *)

\* What npf.rate(...) * 2 * 100 can come to: the call raises, or gives NaN
\* (no convergence), or a yield.
RateOutcomes ==
    {[kind |-> "raise", ytm |-> 0], [kind |-> "nan", ytm |-> 0]}
    \cup [kind : {"value"}, ytm : {-2500, -1000, -999, 0, 712, 4999, 5000, 9000}]

\* The sanity band of app.py:437, in hundredths of a percent.
BandLow == -1000
BandHigh == 5000

Returned(v) == [status |-> "returned", value |-> v]
Pending == [status |-> "pending", value |-> Null]

\* a <= 0 on floats: False when a is NaN
LeqZero(a) == a # Null /\ a[1] <= 0

calculate_ytm_NegativeOnly(price, coupon, years, rate) ==
    IF price = Null \/ price[1] < 0 THEN Returned(Null)
    ELSE IF LeqZero(years) \/ LeqZero(coupon) THEN Returned(Null)
    ELSE IF rate.kind = "raise" THEN Returned(Null)
    ELSE IF rate.kind = "nan" THEN Returned(Null)
    ELSE IF BandLow < rate.ytm /\ rate.ytm < BandHigh THEN Returned(Some(rate.ytm))
    ELSE Returned(Null)

\* app.py 421-442; rate is what the solver does when it is called.
calculate_ytm(price, coupon, years, rate) ==
    IF price = Null \/ price[1] <= 0 THEN Returned(Null)
    ELSE IF LeqZero(years) \/ LeqZero(coupon) THEN Returned(Null)
    ELSE IF rate.kind = "raise" THEN Returned(Null)      \* except: return None
    ELSE IF rate.kind = "nan" THEN Returned(Null)        \* -10 < nan is False
    ELSE IF BandLow < rate.ytm /\ rate.ytm < BandHigh THEN Returned(Some(rate.ytm))
    ELSE Returned(Null)

\* app.py 447-455
get_bid_ytm(r, rate) ==
    IF r.Bid > 0 THEN calculate_ytm(Some(r.Bid - r.Accrued), r.Coupon, r.Years, rate)
    ELSE IF r.LTP > 0 THEN calculate_ytm(Some(r.LTP - r.Accrued), r.Coupon, r.Years, rate)
    ELSE Returned(Null)

\* app.py 462-470
get_ask_ytm(r, rate) ==
    IF r.Ask > 0 THEN calculate_ytm(Some(r.Ask - r.Accrued), r.Coupon, r.Years, rate)
    ELSE IF r.LTP > 0 THEN calculate_ytm(Some(r.LTP - r.Accrued), r.Coupon, r.Years, rate)
    ELSE Returned(Null)

\* The solver gives no number when an argument is NaN.
RateFor(coupon, years) ==
    IF coupon = Null \/ years = Null
    THEN {o \in RateOutcomes : o.kind # "value"} ELSE RateOutcomes

YtmPrices == {Null, Some(-160), Some(0), Some(1), Some(9790)}
YtmCoupons == {Null, Some(-100), Some(0), Some(754)}
YtmYears == {Null, Some(-50), Some(0), Some(1130)}

\* Rows of df as the yield functions see them (app.py 449-454, 464-469).
YtmRows == [Bid : {0, 50, 10000}, Ask : {0, 50, 10050}, LTP : {0, 9900},
            Accrued : {0, 50, 210}, Coupon : {Null, Some(754)}, Years : {Some(1130)}]

YtmCallInit ==
    /\ \/ \E price \in YtmPrices : \E coupon \in YtmCoupons : \E years \in YtmYears :
          \E rate \in RateFor(coupon, years) :
            call = [fn |-> "calculate_ytm", price |-> price, coupon |-> coupon,
                    years |-> years, rate |-> rate]
       \/ \E fn \in {"get_bid_ytm", "get_ask_ytm"} : \E r \in YtmRows :
          \E rate \in RateFor(r.Coupon, r.Years) :
            call = [fn |-> fn, r |-> r, rate |-> rate]
    /\ ret = Pending
    /\ CallOnly

YtmCallReturn ==
    /\ ret = Pending
    /\ ret' = CASE call.fn = "calculate_ytm" ->
                    calculate_ytm(call.price, call.coupon, call.years, call.rate)
                [] call.fn = "get_bid_ytm" -> get_bid_ytm(call.r, call.rate)
                [] call.fn = "get_ask_ytm" -> get_ask_ytm(call.r, call.rate)
    /\ UNCHANGED <<call, notCall>>

SpecYtm == YtmCallInit /\ [][YtmCallReturn]_vars

\* The price get_bid_ytm / get_ask_ytm work from: the quote of their side
\* when it is positive, else the last traded price when that is positive.
QuoteUsed(fn, r) ==
    LET side == IF fn = "get_bid_ytm" THEN r.Bid ELSE r.Ask
    IN  IF side > 0 THEN side ELSE IF r.LTP > 0 THEN r.LTP ELSE 0

\* C9: calculate_ytm never raises; it returns None whenever price <= 0,
\* years <= 0 or coupon <= 0, and whenever the solved yield is not strictly
\* between -10 and 50 percent; get_bid_ytm and get_ask_ytm return None when
\* the quote they work from minus the accrued interest is not positive.
C9_YtmNullNeverRaises ==
    ret # Pending =>
        /\ ret.status = "returned"
        /\ call.fn = "calculate_ytm" =>
              /\ (LeqZero(call.price) \/ LeqZero(call.years) \/ LeqZero(call.coupon))
                    => ret.value = Null
              /\ (call.rate.kind = "value"
                    /\ (call.rate.ytm <= BandLow \/ call.rate.ytm >= BandHigh))
                    => ret.value = Null
        /\ call.fn \in {"get_bid_ytm", "get_ask_ytm"} =>
              /\ QuoteUsed(call.fn, call.r) - call.r.Accrued <= 0 => ret.value = Null
              /\ (call.rate.kind = "value"
                    /\ (call.rate.ytm <= BandLow \/ call.rate.ytm >= BandHigh))
                    => ret.value = Null

\* calculate_ytm was given the price 0 where the solver would have answered
\* 7.12 percent, and returned None.
C9_Witness ==
    /\ call.fn = "calculate_ytm"
    /\ call.price = Some(0) /\ call.coupon = Some(754) /\ call.years = Some(1130)
    /\ call.rate = [kind |-> "value", ytm |-> 712]
    /\ ret = Returned(Null)

-----------------------------------------------------------------------------
(* One refresh cycle (app.py 337-606, notifier.py 88-110)                  *)
(* A DataFrame is its set of columns and its sequence of rows; every row   *)
(* record has all the fields, and `columns` says which of them exist.      *)

\* master as load_master() returns it (app.py:337, notifier.py:88): Coupon in
\* hundredths of a percent, Years in hundredths of a year, DaysSince the
\* 30/360 days from the last coupon date to settlement.
MasterSymbols == <<"A", "B">>
MasterColumns == {"Symbol", "Coupon", "REDEMPTION DATE", "Years"}
MasterRef ==
    [s \in {"A", "B"} |->
        IF s = "A" THEN [Coupon |-> 754, Years |-> 1130, DaysSince |-> 100]
                   ELSE [Coupon |-> 680, Years |-> 300, DaysSince |-> 10]]

\* Rows the feed can carry; "Z" is traded but is not in master_debt.csv.
QuoteA == [Symbol |-> "A", Series |-> "GS", Bid |-> 10000, Ask |-> 10005, LTP |-> 9900, Volume |-> 50]
QuoteB == [Symbol |-> "B", Series |-> "SG", Bid |-> 9950, Ask |-> 9990, LTP |-> 0, Volume |-> 5]
QuoteZ == [Symbol |-> "Z", Series |-> "GS", Bid |-> 0, Ask |-> 0, LTP |-> 9000, Volume |-> 20]
FeedRows == {<<QuoteA>>, <<QuoteA, QuoteZ>>, <<QuoteZ>>, <<QuoteB>>}

\* The ways the request fails (app.py 254-292, notifier.py 72-85).
Failures == {"timeout", "connection_error", "status_403", "empty_body", "non_json", "no_rows"}
Feeds ==
    {[outcome |-> "ok", rows |-> r] : r \in FeedRows}
    \cup {[outcome |-> f, rows |-> <<>>] : f \in Failures}

ManualPrices == {<<>>, <<"A">>, <<"Z">>}

AppLiveColumns == {"Symbol", "Series", "Bid", "Ask", "LTP", "Dirty", "Volume"}
NotifierLiveColumns == {"Symbol", "Bid", "Ask", "LTP"}

\* DataFrame.empty
empty(f) == f.columns = {} \/ f.rows = <<>>

\* app.py 217-292: the frame of load_live_nse(); every path but `if rows:`
\* returns pd.DataFrame() with an error message.
load_live_nse(fd) ==
    IF fd.outcome = "ok" /\ fd.rows # <<>>
    THEN [columns |-> AppLiveColumns, rows |-> fd.rows] ELSE NoFrame

\* notifier.py 69-86: pd.DataFrame(rows), of no column when rows = []
load_live(fd) ==
    IF fd.outcome = "ok" /\ fd.rows # <<>>
    THEN [columns |-> NotifierLiveColumns, rows |-> fd.rows] ELSE NoFrame

\* app.py 353-365
manual_df(mp) ==
    IF mp = <<>> THEN NoFrame
    ELSE [columns |-> AppLiveColumns,
          rows |-> [i \in 1 .. Len(mp) |->
                      [Symbol |-> mp[i], Series |-> "GS", Bid |-> 10010,
                       Ask |-> 10060, LTP |-> 0, Volume |-> 0]]]

\* app.py 367-374
Combine(live, manual) ==
    IF ~empty(live) /\ ~empty(manual)
    THEN [columns |-> AppLiveColumns,
          rows |-> SelectSeq(live.rows,
                      LAMBDA r : \A i \in 1 .. Len(manual.rows) :
                                    manual.rows[i].Symbol # r.Symbol)
                   \o manual.rows]
    ELSE IF ~empty(manual) THEN manual
    ELSE live

\* A row of merge(master, on="Symbol", how="left"): NaN where master has no
\* such symbol; the columns of the later stages are not computed yet.
Merge(q) ==
    LET known == q.Symbol \in DOMAIN MasterRef
    IN  [Symbol |-> q.Symbol, Series |-> q.Series, Bid |-> q.Bid, Ask |-> q.Ask,
         LTP |-> q.LTP, Volume |-> q.Volume,
         Coupon |-> IF known THEN Some(MasterRef[q.Symbol].Coupon) ELSE Null,
         Years |-> IF known THEN Some(MasterRef[q.Symbol].Years) ELSE Null,
         Accrued |-> 0, Spread |-> 0, BidYTM |-> Null, AskYTM |-> Null, YTM |-> Null]

\* app.py 86-90: the default of the Series multiselect
series_filter == {"GS"}

\* app.py 385-398
AppJoinFrame(combined) ==
    IF empty(combined)
    THEN [columns |-> MasterColumns \cup {"Series", "Bid", "Ask", "LTP", "Dirty", "Volume"},
          rows |-> [i \in 1 .. Len(MasterSymbols) |->
                      Merge([Symbol |-> MasterSymbols[i], Series |-> "", Bid |-> 0,
                             Ask |-> 0, LTP |-> 0, Volume |-> 0])]]
    ELSE [columns |-> combined.columns \cup MasterColumns,
          rows |-> SelectSeq([i \in 1 .. Len(combined.rows) |-> Merge(combined.rows[i])],
                      LAMBDA r : /\ r.Series \in series_filter
                                 /\ r.Coupon # Null /\ r.Years # Null)]

\* notifier.py:90 when live has the column Symbol
NotifierJoinFrame(live) ==
    [columns |-> live.columns \cup MasterColumns,
     rows |-> SelectSeq([i \in 1 .. Len(live.rows) |-> Merge(live.rows[i])],
                 LAMBDA r : r.Coupon # Null /\ r.Years # Null)]

\* What the solver does in the runs of this machine.
PipelineRates == {o \in RateOutcomes : o.kind # "value" \/ o.ytm \in {712, 9000}}

\* df[col] = df.apply(f, axis=1) on a frame of no rows: apply returns a
\* DataFrame (pandas cannot tell what f returns), and the assignment of a
\* frame to one column raises or not with the pandas build; the repository
\* pins no version.
EmptyApplyOutcomes == {"raises", "assigns"}

\* app.py 411-416, notifier.py 99-101: Accrued = days * Coupon / 360
WithAccrued(rows) ==
    [i \in 1 .. Len(rows) |->
        [rows[i] EXCEPT !.Accrued =
            (MasterRef[rows[i].Symbol].DaysSince * rows[i].Coupon[1]) \div 360]]

\* app.py 445, 472, 477
WithYields(rows, rate) ==
    [i \in 1 .. Len(rows) |->
        [rows[i] EXCEPT !.BidYTM = get_bid_ytm(rows[i], rate).value,
                        !.AskYTM = get_ask_ytm(rows[i], rate).value,
                        !.Spread = rows[i].Ask - rows[i].Bid]]

\* notifier.py 104-108: no guard and no band; only an exception gives None
ytm(r, rate) ==
    IF rate.kind = "value" THEN Some(rate.ytm) ELSE Null

WithYTM(rows, rate) ==
    [i \in 1 .. Len(rows) |-> [rows[i] EXCEPT !.YTM = ytm(rows[i], rate)]]

\* app.py 99-129: the defaults of the scanner settings, yields in hundredths
yield_threshold == 20
volume_multiplier == 2
min_volume == 10
max_opportunities == 10

\* The sum of the values of a function of finite domain.
RECURSIVE SumOf(_)
SumOf(f) ==
    IF DOMAIN f = {} THEN 0
    ELSE LET k == CHOOSE x \in DOMAIN f : TRUE
         IN  f[k] + SumOf([x \in DOMAIN f \ {k} |-> f[x]])

\* sum(xs) / len(xs) if xs else None: the quotient is kept as the pair
\* (sum, n), so that no rounding is made.
MeanOf(f) ==
    IF DOMAIN f = {} THEN Null ELSE Some([sum |-> SumOf(f), n |-> Cardinality(DOMAIN f)])

\* `if avg_data[...]:` on a float or None (app.py 552, 565, 578)
Truthy(avg) == avg # Null /\ avg[1].sum # 0

\* app.py 514-533: `if date_data[symbol][...]:` keeps a value that is
\* neither None nor 0.
get_7d_avg_yield(symbol, history) ==
    LET days == {k \in DOMAIN history : symbol \in DOMAIN history[k]}
        bid_yields == [k \in {d \in days : history[d][symbol].bid_ytm # 0}
                          |-> history[k][symbol].bid_ytm]
        ask_yields == [k \in {d \in days : /\ history[d][symbol].ask_ytm # Null
                                           /\ history[d][symbol].ask_ytm # Some(0)}
                          |-> history[k][symbol].ask_ytm[1]]
        volumes == [k \in {d \in days : history[d][symbol].volume # 0}
                          |-> history[k][symbol].volume]
    IN  [bid_avg |-> MeanOf(bid_yields), ask_avg |-> MeanOf(ask_yields),
         vol_avg |-> MeanOf(volumes)]

\* A priority is the fraction num / den, den > 0, in the units of the code:
\* percent for BUY and SELL, a ratio for VOLUME, rupees for LIQUID.
Less(p, q) == p.num * q.den < q.num * p.den

Signal(r, kind, num, den) ==
    [Symbol |-> r.Symbol, Signal |-> kind, Priority |-> [num |-> num, den |-> den]]

\* app.py 544-598: the signals of one row, in the order they are appended
Signals(r, avg_data, threshold, vol_mult, min_vol) ==
    IF r.Volume < min_vol THEN <<>>
    ELSE
      LET ask == avg_data.ask_avg[1]
          bid == avg_data.bid_avg[1]
          vol == avg_data.vol_avg[1]
          buy == IF /\ r.AskYTM # Null /\ Truthy(avg_data.ask_avg)
                    /\ r.AskYTM[1] * ask.n - ask.sum > threshold * ask.n
                 THEN <<Signal(r, "BUY", r.AskYTM[1] * ask.n - ask.sum, 100 * ask.n)>>
                 ELSE <<>>
          sell == IF /\ r.BidYTM # Null /\ Truthy(avg_data.bid_avg)
                     /\ bid.sum - r.BidYTM[1] * bid.n > threshold * bid.n
                  THEN <<Signal(r, "SELL", bid.sum - r.BidYTM[1] * bid.n, 100 * bid.n)>>
                  ELSE <<>>
          volume == IF /\ Truthy(avg_data.vol_avg)
                       /\ r.Volume * vol.n > vol.sum * vol_mult
                    THEN <<Signal(r, "VOLUME", r.Volume * vol.n, vol.sum)>>
                    ELSE <<>>
          liquid == IF r.Spread > 0 /\ r.Spread < 10
                    THEN <<Signal(r, "LIQUID", 10 - r.Spread, 100)>>
                    ELSE <<>>
      IN  buy \o sell \o volume \o liquid

\* opportunities before the sort: the signals of the rows, row after row
RECURSIVE Pool(_, _, _, _, _)
Pool(rows, history, threshold, vol_mult, min_vol) ==
    IF rows = <<>> THEN <<>>
    ELSE Signals(Head(rows), get_7d_avg_yield(Head(rows).Symbol, history),
                 threshold, vol_mult, min_vol)
         \o Pool(Tail(rows), history, threshold, vol_mult, min_vol)

\* list.sort(key=Priority, reverse=True): descending and stable
RECURSIVE SortByPriority(_)
SortByPriority(seq) ==
    IF seq = <<>> THEN <<>>
    ELSE LET n == Len(seq)
             sorted == SortByPriority(SubSeq(seq, 1, n - 1))
             x == seq[n]
             before == SelectSeq(sorted, LAMBDA y : ~Less(y.Priority, x.Priority))
             after == SelectSeq(sorted, LAMBDA y : Less(y.Priority, x.Priority))
         IN  before \o <<x>> \o after

\* opportunities[:max_opportunities]
FirstN(seq, topN) == SubSeq(seq, 1, IF Len(seq) < topN THEN Len(seq) ELSE topN)

generate_opportunities_CutFirst(rows, history, threshold, vol_mult, min_vol, topN) ==
    SortByPriority(FirstN(Pool(rows, history, threshold, vol_mult, min_vol), topN))

\* app.py 535-604: df["7D Avg"], then generate_opportunities with the
\* sidebar's max_opportunities as topN
generate_opportunities(rows, history, threshold, vol_mult, min_vol, topN) ==
    FirstN(SortByPriority(Pool(rows, history, threshold, vol_mult, min_vol)), topN)

PipelineInit ==
    /\ prog \in {"app", "notifier"}
    /\ feed \in Feeds
    /\ manual_prices \in (IF prog = "app" THEN ManualPrices ELSE {<<>>})
    /\ pc = "fetch"
    /\ live_df = NoFrame /\ combined_live = NoFrame /\ priced_df = NoFrame
    /\ snapshot = <<>> /\ opportunities = <<>>
    /\ PipelineOnly

\* app.py 345-374
AppFetch ==
    /\ prog = "app" /\ pc = "fetch"
    /\ live_df' = load_live_nse(feed)
    /\ combined_live' = Combine(live_df', manual_df(manual_prices))
    /\ pc' = "join"
    /\ UNCHANGED <<prog, feed, manual_prices, priced_df, snapshot, opportunities, notPipeline>>

\* notifier.py:89
NotifierFetch ==
    /\ prog = "notifier" /\ pc = "fetch"
    /\ live_df' = load_live(feed)
    /\ combined_live' = live_df'
    /\ pc' = "join"
    /\ UNCHANGED <<prog, feed, manual_prices, priced_df, snapshot, opportunities, notPipeline>>

\* app.py 385-398
AppJoin ==
    /\ prog = "app" /\ pc = "join"
    /\ priced_df' = AppJoinFrame(combined_live)
    /\ pc' = "accrued"
    /\ UNCHANGED <<prog, feed, manual_prices, live_df, combined_live, snapshot,
                   opportunities, notPipeline>>

\* notifier.py:90: merge(on="Symbol") raises KeyError when live has no
\* column Symbol.
NotifierJoin ==
    /\ prog = "notifier" /\ pc = "join"
    /\ IF "Symbol" \in live_df.columns
       THEN priced_df' = NotifierJoinFrame(live_df) /\ pc' = "accrued"
       ELSE priced_df' = priced_df /\ pc' = "raised"
    /\ UNCHANGED <<prog, feed, manual_prices, live_df, combined_live, snapshot,
                   opportunities, notPipeline>>

\* app.py 411-416, notifier.py 99-102
Accrue ==
    /\ pc = "accrued"
    /\ LET first == IF prog = "app" THEN {"Last Interest Paid"} ELSE {"LastCoupon"}
           rest == IF prog = "app" THEN {"Days Since", "Accrued"}
                   ELSE {"Days", "Accrued", "Clean"}
       IN  IF priced_df.rows = <<>>
           THEN \E o \in EmptyApplyOutcomes :
                  /\ pc' = IF o = "raises" THEN "raised" ELSE "ytm"
                  /\ priced_df' = [priced_df EXCEPT !.columns =
                        IF o = "raises" THEN @ \cup first ELSE @ \cup first \cup rest]
           ELSE /\ pc' = "ytm"
                /\ priced_df' = [columns |-> priced_df.columns \cup first \cup rest,
                                 rows |-> WithAccrued(priced_df.rows)]
    /\ UNCHANGED <<prog, feed, manual_prices, live_df, combined_live, snapshot,
                   opportunities, notPipeline>>

\* app.py 445-477
AppYtm ==
    /\ prog = "app" /\ pc = "ytm"
    /\ IF priced_df.rows = <<>>
       THEN \E o \in EmptyApplyOutcomes :
              /\ pc' = IF o = "raises" THEN "raised" ELSE "history"
              /\ priced_df' = [priced_df EXCEPT !.columns =
                    IF o = "raises" THEN @ ELSE @ \cup {"Bid YTM", "Ask YTM", "Spread"}]
       ELSE \E rate \in PipelineRates :
              /\ pc' = "history"
              /\ priced_df' = [columns |-> priced_df.columns \cup {"Bid YTM", "Ask YTM", "Spread"},
                               rows |-> WithYields(priced_df.rows, rate)]
    /\ UNCHANGED <<prog, feed, manual_prices, live_df, combined_live, snapshot,
                   opportunities, notPipeline>>

\* notifier.py 104-110
NotifierYtm ==
    /\ prog = "notifier" /\ pc = "ytm"
    /\ IF priced_df.rows = <<>>
       THEN \E o \in EmptyApplyOutcomes :
              /\ pc' = IF o = "raises" THEN "raised" ELSE "done"
              /\ priced_df' = [priced_df EXCEPT !.columns =
                    IF o = "raises" THEN @ ELSE @ \cup {"YTM"}]
       ELSE \E rate \in PipelineRates :
              /\ pc' = "done"
              /\ priced_df' = [columns |-> priced_df.columns \cup {"YTM"},
                               rows |-> WithYTM(priced_df.rows, rate)]
    /\ UNCHANGED <<prog, feed, manual_prices, live_df, combined_live, snapshot,
                   opportunities, notPipeline>>

\* app.py:509, on a yield_history.json that has no entry of today
History ==
    /\ prog = "app" /\ pc = "history"
    /\ snapshot' = RecordRows(<<>>, priced_df.rows)
    /\ pc' = "scanner"
    /\ UNCHANGED <<prog, feed, manual_prices, live_df, combined_live, priced_df,
                   opportunities, notPipeline>>

\* app.py 535, 606
Scanner ==
    /\ prog = "app" /\ pc = "scanner"
    /\ opportunities' = generate_opportunities(priced_df.rows,
            [k \in {strftime(BaseDay)} |-> snapshot],
            yield_threshold, volume_multiplier, min_volume, max_opportunities)
    /\ pc' = "done"
    /\ UNCHANGED <<prog, feed, manual_prices, live_df, combined_live, priced_df,
                   snapshot, notPipeline>>

\* The next script run, after the last one completed or died: the feed
\* answers anew, and the user may have saved manual prices.
NextRefresh ==
    /\ pc \in {"done", "raised"}
    /\ feed' \in Feeds
    /\ manual_prices' \in (IF prog = "app" THEN ManualPrices ELSE {<<>>})
    /\ pc' = "fetch"
    /\ live_df' = NoFrame /\ combined_live' = NoFrame /\ priced_df' = NoFrame
    /\ snapshot' = <<>> /\ opportunities' = <<>>
    /\ UNCHANGED <<prog, notPipeline>>

PipelineNext ==
    \/ AppFetch \/ NotifierFetch \/ AppJoin \/ NotifierJoin \/ Accrue
    \/ AppYtm \/ NotifierYtm \/ History \/ Scanner \/ NextRefresh

SpecPipeline == PipelineInit /\ [][PipelineNext]_vars

\* C10: when the market-data fetch fails (timeout, connection error, non-200
\* status, empty or non-JSON body, no usable rows), the quote set of the
\* refresh is empty and the refresh never raises: every stage runs.
C10_FeedFailureCompletes ==
    feed.outcome # "ok" =>
        /\ pc # "fetch" => live_df.rows = <<>>
        /\ pc # "raised"

-----------------------------------------------------------------------------
(* The opportunity scanner and the 7-day averages as functions             *)
(* (app.py 514-604)                                                        *)

\* Entries of yield_history.json as update_yield_history writes them
\* (app.py 494-498): yields in hundredths of a percent.
Entry700 == [bid_ytm |-> 700, ask_ytm |-> Some(700), volume |-> 50]
EntryZero == [bid_ytm |-> 0, ask_ytm |-> Some(0), volume |-> 0]
EntryNeg == [bid_ytm |-> -100, ask_ytm |-> Some(-100), volume |-> 10]
EntryPos == [bid_ytm |-> 100, ask_ytm |-> Null, volume |-> 30]
EntryPlus == [bid_ytm |-> 100, ask_ytm |-> Some(100), volume |-> 30]
ScanEntries == {Entry700, EntryZero, EntryNeg, EntryPos, EntryPlus}

\* Histories of two dates: "A" has an entry of any kind or none on each,
\* "B" has one on the second.
ScanHistories ==
    LET k1 == strftime(BaseDay)
        k2 == strftime(BaseDay + 1)
        day(sym, e) == IF e = Null THEN <<>> ELSE [x \in {sym} |-> e[1]]
    IN  {[k \in {k1, k2} |->
            IF k = k1 THEN day("A", e1)
            ELSE DictSet(day("A", e2), "B", [bid_ytm |-> 700, ask_ytm |-> Some(700), volume |-> 10])] :
         e1 \in {Null} \cup {Some(e) : e \in ScanEntries},
         e2 \in {Null} \cup {Some(e) : e \in ScanEntries}}

\* Rows of df as the scanner reads them (app.py 544-590)
ScanRowsA ==
    [Symbol : {"A"}, AskYTM : {Null, Some(720), Some(721)}, BidYTM : {Some(679), Some(700)},
     Volume : {5, 50, 200}, Spread : {0, 5}]
ScanRowsB ==
    {[Symbol |-> "B", AskYTM |-> Some(800), BidYTM |-> Some(600), Volume |-> 100, Spread |-> 9],
     [Symbol |-> "B", AskYTM |-> Some(800), BidYTM |-> Some(600), Volume |-> 5, Spread |-> 9]}
ScanFrames ==
    {<<a>> : a \in ScanRowsA}
    \cup {<<a, b>> : a \in ScanRowsA, b \in ScanRowsB}
    \cup {<<b, a>> : a \in ScanRowsA, b \in ScanRowsB}

\* The smallest choice of "Show top opportunities" (app.py:127), and the default.
TopNs == {5, max_opportunities}

ScanCallInit ==
    /\ \/ \E rows \in ScanFrames : \E history \in ScanHistories : \E topN \in TopNs :
            call = [fn |-> "generate_opportunities", rows |-> rows, history |-> history,
                    topN |-> topN]
       \/ \E symbol \in {"A", "B", "Z"} : \E history \in ScanHistories :
            call = [fn |-> "get_7d_avg_yield", symbol |-> symbol, history |-> history]
    /\ ret = Pending
    /\ CallOnly

ScanCallReturn ==
    /\ ret = Pending
    /\ ret' = IF call.fn = "generate_opportunities"
              THEN Returned(generate_opportunities(call.rows, call.history, yield_threshold,
                                volume_multiplier, min_volume, call.topN))
              ELSE Returned(get_7d_avg_yield(call.symbol, call.history))
    /\ UNCHANGED <<call, notCall>>

SpecScanner == ScanCallInit /\ [][ScanCallReturn]_vars

\* The signals of a symbol in a returned list.
SignalsOf(list, symbol, kind) ==
    {i \in 1 .. Len(list) : list[i].Symbol = symbol /\ list[i].Signal = kind}

\* C11: for every bond with volume >= minVolume and a known historical ask
\* average, there is one BUY signal, of priority askYtm - average, exactly
\* when askYtm - average > threshold (strictly), and none otherwise; a bond
\* with volume < minVolume has no signal of any kind.
C11_BuySignal ==
    (ret # Pending /\ call.fn = "generate_opportunities" /\ call.topN = max_opportunities) =>
        \A i \in 1 .. Len(call.rows) :
            LET r == call.rows[i]
                avg == get_7d_avg_yield(r.Symbol, call.history).ask_avg
                buys == SignalsOf(ret.value, r.Symbol, "BUY")
            IN  /\ r.Volume < min_volume =>
                      \A j \in 1 .. Len(ret.value) : ret.value[j].Symbol # r.Symbol
                /\ (r.Volume >= min_volume /\ avg # Null /\ r.AskYTM # Null) =>
                      IF r.AskYTM[1] * avg[1].n - avg[1].sum > yield_threshold * avg[1].n
                      THEN /\ Cardinality(buys) = 1
                           /\ \A j \in buys :
                                ret.value[j].Priority.num * 100 * avg[1].n
                                    = (r.AskYTM[1] * avg[1].n - avg[1].sum) * ret.value[j].Priority.den
                      ELSE buys = {}

\* C12: the returned list is the pool of the signals of all rows (at most one
\* BUY, SELL, VOLUME and LIQUID per row), in descending order of priority,
\* cut to its first topN: it has min(topN, size of the pool) signals, and no
\* signal left out has a greater priority than one returned.
C12_TopNByPriority ==
    (ret # Pending /\ call.fn = "generate_opportunities") =>
        LET pool == Pool(call.rows, call.history, yield_threshold, volume_multiplier,
                         min_volume)
            out == ret.value
        IN  /\ Len(out) <= call.topN
            /\ Len(out) = IF Len(pool) < call.topN THEN Len(pool) ELSE call.topN
            /\ Elems(out) \subseteq Elems(pool)
            /\ Cardinality(Elems(out)) = Len(out)
            /\ \A i, j \in 1 .. Len(out) :
                  i < j => ~Less(out[i].Priority, out[j].Priority)
            /\ \A o \in Elems(pool) \ Elems(out) : \A x \in Elems(out) :
                  ~Less(x.Priority, o.Priority)
            /\ \A i \in 1 .. Len(call.rows) :
                  \A kind \in {"BUY", "SELL", "VOLUME", "LIQUID"} :
                      Cardinality(SignalsOf(pool, call.rows[i].Symbol, kind)) <= 1

\* Two rows gave four signals each, and five of the eight were returned.
C12_Witness ==
    /\ ret # Pending /\ call.fn = "generate_opportunities" /\ call.topN = 5
    /\ Len(Pool(call.rows, call.history, yield_threshold, volume_multiplier, min_volume)) = 8
    /\ Len(ret.value) = 5

\* Two averages are the same number, or both are None.
SameMean(a, m) ==
    /\ a = Null <=> m = Null
    /\ (a # Null /\ m # Null) => a[1].sum * m[1].n = m[1].sum * a[1].n

\* C16: get_7d_avg_yield returns, for bid yield, ask yield and volume each,
\* the arithmetic mean of the values recorded (not None) in the history
\* entries of the symbol, a recorded 0 being a data point, and None exactly
\* when no value of that kind is recorded.
C16_PlainMean ==
    (ret # Pending /\ call.fn = "get_7d_avg_yield") =>
        LET h == call.history
            days == {k \in DOMAIN h : call.symbol \in DOMAIN h[k]}
            bids == [k \in days |-> h[k][call.symbol].bid_ytm]
            asks == [k \in {d \in days : h[d][call.symbol].ask_ytm # Null}
                        |-> h[k][call.symbol].ask_ytm[1]]
            vols == [k \in days |-> h[k][call.symbol].volume]
        IN  /\ SameMean(ret.value.bid_avg, MeanOf(bids))
            /\ SameMean(ret.value.ask_avg, MeanOf(asks))
            /\ SameMean(ret.value.vol_avg, MeanOf(vols))

-----------------------------------------------------------------------------
(* Last coupon date, 30/360 days and accrued interest                      *)
(* (app.py 150-160, 403-416; notifier.py 49-55, 93-101)                    *)

\* date(y, m, d).toordinal()
DateOf(y, m, d) ==
    LET yy == IF m <= 2 THEN y - 1 ELSE y
        era == yy \div 400
        yoe == yy - era * 400
        doy == (153 * (IF m > 2 THEN m - 3 ELSE m + 9) + 2) \div 5 + d - 1
        doe == yoe * 365 + yoe \div 4 - yoe \div 100 + doy
    IN  era * 146097 + doe - 305

\* calendar.monthrange(y, m)[1]
DaysInMonth(y, m) ==
    IF m = 2
    THEN (IF (y % 4 = 0 /\ y % 100 # 0) \/ y % 400 = 0 THEN 29 ELSE 28)
    ELSE IF m \in {4, 6, 9, 11} THEN 30 ELSE 31

\* d - relativedelta(months=n): the month moves, and the day is cut to the
\* length of the month reached.
MinusMonths(ordinal, n) ==
    LET ymd == YearMonthDay(ordinal)
        total == ymd[1] * 12 + (ymd[2] - 1) - n
        y == total \div 12
        m == (total % 12) + 1
        last == DaysInMonth(y, m)
    IN  DateOf(y, m, IF ymd[3] > last THEN last ELSE ymd[3])

days360_us_NoEndClamp(start, end) ==
    LET s == YearMonthDay(start)
        e == YearMonthDay(end)
        d1 == IF s[3] = 31 THEN 30 ELSE s[3]
    IN  360 * (e[1] - s[1]) + 30 * (e[2] - s[2]) + (e[3] - d1)

\* app.py 150-160, notifier.py 49-55
days360_us(start, end) ==
    LET s == YearMonthDay(start)
        e == YearMonthDay(end)
        d1 == IF s[3] = 31 THEN 30 ELSE s[3]
        d2 == IF e[3] = 31 /\ d1 = 30 THEN 30 ELSE e[3]
    IN  360 * (e[1] - s[1]) + 30 * (e[2] - s[2]) + (d2 - d1)

\* app.py:416: Days Since * Coupon / 360, the quotient kept as a fraction;
\* the coupon is in hundredths of a percent.
Accrued(days, coupon) == [num |-> days * coupon, den |-> 360]

\* Redemption dates of master: on a 31st, on a 30th, on a 15th, on a leap
\* day, and one already past.
Redemptions ==
    {DateOf(2026, 8, 31), DateOf(2026, 7, 30), DateOf(2026, 7, 15), DateOf(2028, 2, 29),
     DateOf(2024, 12, 20)}

\* The days the script can run on: BaseDay and the CouponDays after it.
CouponDays == 40

Running(d) == [status |-> "running", value |-> d]

CouponInit ==
    /\ \E redemption \in Redemptions : \E t \in BaseDay .. BaseDay + CouponDays :
       \E coupon \in {1, 754} :
         /\ call = [fn |-> "last_coupon_date", redemption |-> redemption,
                    SETTLEMENT |-> get_settlement_date(t), Coupon |-> coupon]
         /\ ret = Running(redemption)                              \* d = redemption
    /\ CallOnly

\* app.py 405-406, notifier.py 95-96: one turn of the while loop
CouponLoop ==
    /\ ret.status = "running" /\ ret.value > call.SETTLEMENT
    /\ ret' = Running(MinusMonths(ret.value, 6))
    /\ UNCHANGED <<call, notCall>>

\* app.py:407: return d
CouponReturn ==
    /\ ret.status = "running" /\ ~(ret.value > call.SETTLEMENT)
    /\ ret' = Returned(ret.value)
    /\ UNCHANGED <<call, notCall>>

\* app.py 411-416: Days Since and Accrued of the row
CouponAccrue ==
    /\ ret.status = "returned"
    /\ LET days == days360_us(ret.value, call.SETTLEMENT)
       IN  ret' = [status |-> "priced",
                   value |-> [last |-> ret.value, days |-> days,
                              accrued |-> Accrued(days, call.Coupon)]]
    /\ UNCHANGED <<call, notCall>>

CouponNext == CouponLoop \/ CouponReturn \/ CouponAccrue

SpecCoupon == CouponInit /\ [][CouponNext]_vars

\* The day counts the monotonicity is compared over.
DaysRange == 185

\* C13: the accrued interest of a bond (coupon > 0) is zero exactly when the
\* 30/360 day count from its last coupon date to settlement is zero, that
\* is when settlement is the last coupon date or is the 31st of the month
\* whose 30th is the last coupon date; and for the same coupon it is
\* strictly larger for a larger day count.
C13_AccruedZeroMonotone ==
    ret.status = "priced" =>
        LET v == ret.value
            l == YearMonthDay(v.last)
            st == YearMonthDay(call.SETTLEMENT)
        IN  /\ v.accrued.num = 0 <=>
                  \/ v.last = call.SETTLEMENT
                  \/ l[1] = st[1] /\ l[2] = st[2] /\ l[3] = 30 /\ st[3] = 31
            /\ \A days \in 0 .. DaysRange :
                  /\ days > v.days => Accrued(days, call.Coupon).num > v.accrued.num
                  /\ days < v.days => Accrued(days, call.Coupon).num < v.accrued.num

\* Settlement is the 31st, the last coupon date the 30th of that month, and
\* the accrued interest is zero.
C13_Witness ==
    /\ ret.status = "priced"
    /\ ret.value.last = call.SETTLEMENT - 1
    /\ YearMonthDay(call.SETTLEMENT)[3] = 31
    /\ ret.value.days = 0 /\ ret.value.accrued.num = 0

\* C13 as stated: the accrued interest is zero exactly when settlement is
\* the last coupon date, and is strictly larger for a larger day count.
C13_AccruedZeroOnlyAtCoupon ==
    ret.status = "priced" =>
        /\ ret.value.accrued.num = 0 <=> ret.value.last = call.SETTLEMENT
        /\ \A days \in 0 .. DaysRange :
              days > ret.value.days =>
                  Accrued(days, call.Coupon).num > ret.value.accrued.num

\* The most half-years a redemption date of Redemptions lies after a
\* settlement date, with room to spare.
MaxHalfYears == 10

\* The greatest date redemption - 6 k months, k >= 0, that is not after settle.
GreatestCoupon(redemption, settle) ==
    LET ks == {k \in 0 .. MaxHalfYears : MinusMonths(redemption, 6 * k) <= settle}
        k0 == CHOOSE k \in ks : \A j \in ks : k <= j
    IN  MinusMonths(redemption, 6 * k0)

\* C14: last_coupon_date returns the greatest date of the form redemption
\* date minus 6 k calendar months (k >= 0) that is not after SETTLEMENT, and
\* the redemption date itself when that is not after SETTLEMENT.
C14_LatestCouponDate ==
    ret.status = "returned" =>
        /\ ret.value = GreatestCoupon(call.redemption, call.SETTLEMENT)
        /\ call.redemption <= call.SETTLEMENT => ret.value = call.redemption

-----------------------------------------------------------------------------
(* The cache of load_master across script runs                             *)
(* (app.py 92-94, 145, 176-205, 339; notifier.py 46, 58-66, 88)            *)

\* st.cache_data(ttl=24 * 3600), in hours
TTLHours == 24

\* The clock moves in steps of StepHours, up to MaxHours after 00:00 of BaseDay.
StepHours == 6
MaxHours == 120

\* datetime.today().date() at hour h
DateAt(h) == BaseDay + h \div 24

\* load_master() called at hour h with the module global SETTLEMENT: the
\* cached frame is returned while its entry is younger than ttl (no ttl:
\* for ever), else the function body runs and its frame, whose Years come
\* from SETTLEMENT, is stored. The key of the entry has no SETTLEMENT in it.
CachedCall(cache, h, ttl, settle) ==
    IF cache # <<>> /\ (ttl = Null \/ h - cache[1].at < ttl[1])
    THEN cache
    ELSE <<[at |-> h, SETTLEMENT |-> settle]>>

CacheInit ==
    /\ now = 0 /\ master_cache = <<>> /\ notifier_cache = <<>>
    /\ run = [script |-> "none", SETTLEMENT |-> BaseDay, master |-> BaseDay]
    /\ CacheOnly

Advance ==
    /\ now + StepHours <= MaxHours
    /\ now' = now + StepHours
    /\ UNCHANGED <<master_cache, notifier_cache, run, notCache>>

\* A run of app.py: SETTLEMENT (line 145), then master = load_master() (line 339)
AppScriptRun ==
    LET settle == get_settlement_date(DateAt(now))
        entry == CachedCall(master_cache, now, Some(TTLHours), settle)
    IN  /\ master_cache' = entry
        /\ run' = [script |-> "app", SETTLEMENT |-> settle, master |-> entry[1].SETTLEMENT]
        /\ UNCHANGED <<now, notifier_cache, notCache>>

\* "Refresh prices" (app.py 92-94): st.cache_data.clear(), then the rerun
RefreshPrices ==
    LET settle == get_settlement_date(DateAt(now))
        entry == CachedCall(<<>>, now, Some(TTLHours), settle)
    IN  /\ master_cache' = entry
        /\ run' = [script |-> "app", SETTLEMENT |-> settle, master |-> entry[1].SETTLEMENT]
        /\ UNCHANGED <<now, notifier_cache, notCache>>

\* A run of notifier.py: SETTLE (line 46), then master = load_master() (line 88)
NotifierScriptRun ==
    LET settle == settlement(DateAt(now))
        entry == CachedCall(notifier_cache, now, Null, settle)
    IN  /\ notifier_cache' = entry
        /\ run' = [script |-> "notifier", SETTLEMENT |-> settle, master |-> entry[1].SETTLEMENT]
        /\ UNCHANGED <<now, master_cache, notCache>>

CacheNext == Advance \/ AppScriptRun \/ RefreshPrices \/ NotifierScriptRun

SpecCache == CacheInit /\ [][CacheNext]_vars

\* C15: in every refresh cycle the settlement date from which Years (and the
\* Years > 0 filter) of the master frame was computed is the cycle's
\* SETTLEMENT, the one used for last coupon date, days and accrued interest.
C15_OneSettlementPerCycle ==
    run.script = "app" => run.master = run.SETTLEMENT

-----------------------------------------------------------------------------
(* user_state.json between two processes                                   *)
(* (app.py 20-34, notifier.py 13-24)                                       *)

\* Documents {watchlist, alerts} a session can dump.
StateDocs ==
    {[watchlist |-> <<"A">>, alerts |-> <<>>],
     [watchlist |-> <<"B">>, alerts |-> <<>>],
     [watchlist |-> <<"A", "B">>, alerts |-> <<>>],
     [watchlist |-> <<"A", "B">>,
      alerts |-> [x \in {"B"} |-> [side |-> "SELL", target |-> 10000, tolerance |-> 2]]]}

\* return {"watchlist": [], "alerts": {}} (app.py:24, notifier.py:17)
DefaultDoc == [watchlist |-> <<>>, alerts |-> <<>>]

Got(status, doc) == [status |-> status, doc |-> doc]

FileInit ==
    /\ disk_file = [exists |-> FALSE, doc |-> <<>>, written |-> "all"]
    /\ wpc = "idle" /\ wdoc = <<>> /\ rpc = "idle" /\ rgot = Got("none", <<>>)
    /\ FileOnly

\* open(STATE_FILE, "w") (app.py:27, notifier.py:20): the file is created
\* or cut to length 0 before anything is dumped.
WriterOpen ==
    /\ wpc = "idle"
    /\ \E d \in StateDocs :
         /\ wdoc' = d
         /\ disk_file' = [exists |-> TRUE, doc |-> d, written |-> "none"]
    /\ wpc' = "dumping"
    /\ UNCHANGED <<rpc, rgot, notFile>>

\* json.dump writes the document piece by piece into the buffer of f; a
\* document longer than the buffer reaches the file in part before the end.
WriterFlush ==
    /\ wpc = "dumping" /\ disk_file.written = "none"
    /\ disk_file' = [disk_file EXCEPT !.written = "part"]
    /\ UNCHANGED <<wpc, wdoc, rpc, rgot, notFile>>

\* The end of the with block: the rest is flushed and f is closed.
WriterClose ==
    /\ wpc = "dumping"
    /\ disk_file' = [disk_file EXCEPT !.written = "all"]
    /\ wpc' = "idle"
    /\ UNCHANGED <<wdoc, rpc, rgot, notFile>>

\* if STATE_FILE.exists(): ... else the default (app.py 21, 24)
ReaderExists ==
    /\ rpc = "idle"
    /\ IF disk_file.exists
       THEN rpc' = "open" /\ rgot' = rgot
       ELSE rpc' = "idle" /\ rgot' = Got("default", DefaultDoc)
    /\ UNCHANGED <<disk_file, wpc, wdoc, notFile>>

\* with open(STATE_FILE, "r") as f: return json.load(f) (app.py 22-23):
\* the text of the file as it is now; json.load raises JSONDecodeError on
\* an empty text and on a document that stops short.
ReaderLoad ==
    /\ rpc = "open"
    /\ rgot' = IF disk_file.written = "all" THEN Got("loaded", disk_file.doc)
               ELSE Got("raised", <<>>)
    /\ rpc' = "idle"
    /\ UNCHANGED <<disk_file, wpc, wdoc, notFile>>

FileNext == WriterOpen \/ WriterFlush \/ WriterClose \/ ReaderExists \/ ReaderLoad

SpecFile == FileInit /\ [][FileNext]_vars

\* C17: whatever the interleaving of a process that saves and a process
\* that loads user_state.json, the load gives a complete document (the
\* default when there is no file), never an empty or half-written one.
C17_AtomicWrite ==
    /\ rgot.status # "raised"
    /\ rgot.status = "loaded" => rgot.doc \in StateDocs

=============================================================================
